---- MODULE Spec2Model ----
(***************************************************************************)
(* The poinz client's event reducer (services/eventReducer.js): the        *)
(* function that folds backend events into the client's room state, with   *)
(* its session guard, its table of event handlers and its action log.      *)
(*                                                                         *)
(* JavaScript values are modelled as follows.  A string, an id or the      *)
(* value undefined is a TLA+ string, undefined being "undefined" (which is *)
(* also the property name JavaScript uses for obj[undefined]).  An object  *)
(* used as a map (users, stories, estimations, a user, a story) is a       *)
(* function whose domain holds the object's own properties; a property     *)
(* holding undefined is modelled as an absent property.  The room state    *)
(* itself is a record of all its fields.                                   *)
(***************************************************************************)
EXTENDS Integers, Sequences, FiniteSets, TLC

VARIABLES
    state,     \* the room state held by the store: the reducer's last result
    oldState,  \* the value of the reducer's input state when it was last called
    snapshot,  \* that same input object as the call left it
    action,    \* the last action dispatched
    threw,     \* whether the last call of the reducer raised an error
    settings,  \* the client settings store (localStorage)
    oldSettings, \* the client settings store before the last action
    now,       \* the number of events delivered so far: the clock
    resolved   \* whether the local user's own join was applied and no join
               \* command was sent since

vars == <<state, oldState, snapshot, action, threw, settings, oldSettings, now, resolved>>

\* ------------------------------------------------------------ bounds

\* The number of backend events the transport delivers in one run.
MaxEvents == 2

\* The number of events the transport delivers in a run of estimation rounds.
MaxRoundEvents == 3

\* The number of events the transport delivers in a run of a session from
\* join to leave.
MaxSessionEvents == 5

\* The number of events the transport delivers in a run about the applause
\* for a consensus.
MaxApplauseEvents == 4

\* The number of events the transport delivers in a run about the stories of
\* a room.
MaxStoryEvents == 4

\* ------------------------------------------------- JavaScript values

Undef == "undefined"

\* Whether a string-like value is truthy: neither undefined nor ''.
Truthy(v) == v # Undef /\ v # ""

\* obj[k]: the property's value, undefined when the object has none.
Get(obj, k) == IF k \in DOMAIN obj THEN obj[k] ELSE Undef

\* {...obj, [k]: v}
Put(obj, k, v) == (k :> v) @@ obj

\* {...a, ...b}
Spread(a, b) == b @@ a

\* delete obj[k], on a copy
Del(obj, k) == [x \in DOMAIN obj \ {k} |-> obj[x]]

\* The empty object {} (and the empty array).
Empty == <<>>

\* ------------------------------------------------------- the domains

Rooms == {"r1", "r2"}
Users == {"u1", "u2"}
Stories == {"s1", "s2"}
CommandIds == {"c1"}

\* A room's card configuration, as the server sends it.
Cards == <<[label |-> "three", value |-> 3], [label |-> "five", value |-> 5]>>

\* ------------------------------------------------- actions/types.js

EVENT_ACTION_TYPES ==
    [ roomCreated |-> "ROOM_CREATED",
      joinedRoom |-> "JOINED_ROOM",
      leftRoom |-> "LEFT_ROOM",
      kicked |-> "KICKED",
      connectionLost |-> "CONNECTION_LOST",
      commandRejected |-> "COMMAND_REJECTED",
      storyAdded |-> "STORY_ADDED",
      storySelected |-> "STORY_SELECTED",
      importFailed |-> "IMPORT_FAILED",
      usernameSet |-> "USERNAME_SET",
      emailSet |-> "EMAIL_SET",
      avatarSet |-> "AVATAR_SET",
      storyEstimateGiven |-> "STORY_ESTIMATE_GIVEN",
      consensusAchieved |-> "CONSENSUS_ACHIEVED",
      storyEstimateCleared |-> "STORY_ESTIMATE_CLEARED",
      revealed |-> "REVEALED",
      newEstimationRoundStarted |-> "NEW_ESTIMATION_ROUND_STARTED",
      excludedFromEstimations |-> "EXCLUDED_FROM_ESTM",
      includedInEstimations |-> "INCLUDED_IN_ESTM",
      storyChanged |-> "STORY_CHANGED",
      storyDeleted |-> "STORY_DELETED",
      storyTrashed |-> "STORY_TRASHED",
      storyRestored |-> "STORY_RESTORED",
      cardConfigSet |-> "CARD_CONFIG_SET",
      autoRevealOn |-> "AUTO_REVEAL_ON",
      autoRevealOff |-> "AUTO_REVEAL_OFF",
      passwordSet |-> "PASSWORD_SET",
      passwordCleared |-> "PASSWORD_CLEARED",
      tokenIssued |-> "TOKEN_ISSUED" ]

COMMAND_SENT == "COMMAND_SENT"

\* ------------------------------------------------ the collaborators

\* store/initialState.js: the empty room state, its presets read from the
\* client settings store.
initialState(store) ==
    [ roomId |-> Undef,
      userId |-> Undef,
      users |-> Empty,
      stories |-> Empty,
      estimations |-> Empty,
      selectedStory |-> Undef,
      highlightedStory |-> Undef,
      cardConfig |-> Empty,
      autoReveal |-> FALSE,
      passwordProtected |-> FALSE,
      applause |-> FALSE,
      actionLog |-> Empty,
      pendingJoinCommandId |-> Undef,
      authorizationFailed |-> Undef,
      unseenError |-> FALSE,
      userToken |-> Undef,
      presetUsername |-> store.presetUsername,
      presetEmail |-> store.presetEmail,
      presetAvatar |-> store.presetAvatar,
      presetUserId |-> store.presetUserId ]

\* services/roomStateMapper.js: a list of entities as a map keyed by id.
RECURSIVE indexById(_)
indexById(list) ==
    IF list = <<>> THEN Empty
    ELSE Put(indexById(Tail(list)), Head(list).id, Head(list))

indexUsers(usersArray) == indexById(usersArray)

indexStories(storiesArray) == indexById(storiesArray)

\* Each story's estimations (user id -> value) keyed by the story's id.
RECURSIVE indexEstimations(_)
indexEstimations(storiesArray) ==
    IF storiesArray = <<>> THEN Empty
    ELSE LET story == Head(storiesArray)
             rest == indexEstimations(Tail(storiesArray))
         IN IF "estimations" \in DOMAIN story
            THEN Put(rest, story.id, story.estimations)
            ELSE rest

\* services/getCardConfigForValue.js: the label of the card whose value is
\* the given one, "-" standing for no matching card (see consensusAchieved).
RECURSIVE getCardConfigForValue(_, _)
getCardConfigForValue(cardConfig, value) ==
    IF cardConfig = <<>> THEN Undef
    ELSE IF Head(cardConfig).value = value THEN Head(cardConfig).label
    ELSE getCardConfigForValue(Tail(cardConfig), value)

\* --------------------------------------------- the handlers' results

\* What a log function returns: a string, a {message, isError} object, or
\* undefined.
Message(text) == [kind |-> "string", message |-> text]

ErrorMessage(text, flag) == [kind |-> "object", message |-> text, isError |-> flag]

NoMessage == [kind |-> "undefined"]

\* A handler that defines no log at all.
NoLogObject == [kind |-> "absent"]

\* x || fallback
OrElse(x, fallback) == IF Truthy(x) THEN x ELSE fallback

\* --------------------------------------------------- roomCreated

roomCreatedFn(s, payload, event) == s

roomCreatedLog(username, payload, old, new, event) ==
    Message("Room \"" \o Get(payload, "id") \o "\" created")

\* ---------------------------------------------------- joinedRoom

\* youJoinedFn without the test that a join command is pending.
youJoinedFnUnguarded(s, event) == s.pendingJoinCommandId = event.correlationId

\* The branch the transition takes: the local user's own join.
youJoinedFn(s, event) ==
    Truthy(s.pendingJoinCommandId) /\ s.pendingJoinCommandId = event.correlationId

\* joinedRoomFn merging the payload's users into the users it holds.
joinedRoomFnMerging(s, payload, event) ==
    IF youJoinedFn(s, event)
    THEN [s EXCEPT !.roomId = event.roomId,
                   !.userId = event.userId,
                   !.selectedStory = payload.selectedStory,
                   !.highlightedStory = payload.selectedStory,
                   !.users = Spread(s.users, indexUsers(payload.users)),
                   !.stories = indexStories(payload.stories),
                   !.estimations = indexEstimations(payload.stories),
                   !.pendingJoinCommandId = Undef,
                   !.authorizationFailed = Undef,
                   !.cardConfig = payload.cardConfig,
                   !.autoReveal = payload.autoReveal,
                   !.passwordProtected = (payload.passwordProtected = TRUE)]
    ELSE [s EXCEPT !.users = indexUsers(payload.users)]

\* joinedRoomFn leaving the pending join command in place.
joinedRoomFnKeepsPending(s, payload, event) ==
    IF youJoinedFn(s, event)
    THEN [s EXCEPT !.roomId = event.roomId,
                   !.userId = event.userId,
                   !.selectedStory = payload.selectedStory,
                   !.highlightedStory = payload.selectedStory,
                   !.users = indexUsers(payload.users),
                   !.stories = indexStories(payload.stories),
                   !.estimations = indexEstimations(payload.stories),
                   !.authorizationFailed = Undef,
                   !.cardConfig = payload.cardConfig,
                   !.autoReveal = payload.autoReveal,
                   !.passwordProtected = (payload.passwordProtected = TRUE)]
    ELSE [s EXCEPT !.users = indexUsers(payload.users)]

joinedRoomFn(s, payload, event) ==
    IF youJoinedFn(s, event)
    THEN [s EXCEPT !.roomId = event.roomId,
                   !.userId = event.userId,
                   !.selectedStory = payload.selectedStory,
                   !.highlightedStory = payload.selectedStory,
                   !.users = indexUsers(payload.users),
                   !.stories = indexStories(payload.stories),
                   !.estimations = indexEstimations(payload.stories),
                   !.pendingJoinCommandId = Undef,
                   !.authorizationFailed = Undef,
                   !.cardConfig = payload.cardConfig,
                   !.autoReveal = payload.autoReveal,
                   !.passwordProtected = (payload.passwordProtected = TRUE)]
    ELSE [s EXCEPT !.users = indexUsers(payload.users)]

joinedRoomLog(username, payload, old, new, event) ==
    IF ~Truthy(old.userId)
    THEN Message("You joined room \"" \o new.roomId \o "\"")
    ELSE Message(OrElse(Get(new.users[event.userId], "username"), "New user") \o " joined")

\* ------------------------------------------------------ leftRoom

\* leftRoomFn forgetting the users and the own user only, not the whole state.
leftRoomFnKeepsRoom(s, payload, event, store) ==
    IF s.userId = event.userId
    THEN [s EXCEPT !.users = Empty, !.userId = Undef]
    ELSE [s EXCEPT !.users = Del(s.users, event.userId)]

leftRoomFn(s, payload, event, store) ==
    IF s.userId = event.userId
    THEN initialState(store)
    ELSE [s EXCEPT !.users = Del(s.users, event.userId)]

leftRoomLog(username, payload, old, new, event) ==
    Message(OrElse(Get(old.users[event.userId], "username"), "New user") \o " left the room")

\* -------------------------------------------------------- kicked

\* kickedFn taking the subject from the event's acting user.
kickedFnByActor(s, payload, event, store) ==
    IF event.userId = s.userId
    THEN initialState(store)
    ELSE [s EXCEPT !.users = Del(s.users, event.userId)]

kickedFn(s, payload, event, store) ==
    IF Get(payload, "userId") = s.userId
    THEN initialState(store)
    ELSE [s EXCEPT !.users = Del(s.users, Get(payload, "userId"))]

kickedLog(username, payload, old, new, event) ==
    Message(OrElse(Get(old.users[Get(payload, "userId")], "username"), "New user")
            \o " was kicked from the room by "
            \o Get(old.users[event.userId], "username"))

\* ------------------------------------------------ connectionLost

\* connectionLostFn without the test that the user is known.
connectionLostFnAddsUser(s, payload, event) ==
    [s EXCEPT !.users = Put(s.users, event.userId,
                            Put(IF event.userId \in DOMAIN s.users
                                THEN s.users[event.userId] ELSE Empty,
                                "disconnected", TRUE))]

connectionLostFn(s, payload, event) ==
    IF event.userId \notin DOMAIN s.users
    THEN s
    ELSE [s EXCEPT !.users = Put(s.users, event.userId,
                                 Put(s.users[event.userId], "disconnected", TRUE))]

connectionLostLog(username, payload, old, new, event) ==
    Message(OrElse(username, "New user") \o " lost the connection")

\* ------------------------------------------------------- stories

\* storyAddedFn starting from an empty stories mapping.
storyAddedFnAlone(s, payload, event) ==
    [s EXCEPT !.stories = Put(Empty, payload.storyId,
                              [id |-> payload.storyId,
                               title |-> payload.title,
                               description |-> payload.description,
                               createdAt |-> payload.createdAt])]

storyAddedFn(s, payload, event) ==
    [s EXCEPT !.stories = Put(s.stories, payload.storyId,
                              [id |-> payload.storyId,
                               title |-> payload.title,
                               description |-> payload.description,
                               createdAt |-> payload.createdAt])]

storyAddedLog(username, payload, old, new, event) ==
    Message(username \o " added new story \"" \o payload.title \o "\"")

\* {...state.stories[storyId]}: the story's properties, none when it is unknown.
storyOf(s, storyId) == IF storyId \in DOMAIN s.stories THEN s.stories[storyId] ELSE Empty

storyChangedFn(s, payload, event) ==
    [s EXCEPT !.stories = Put(s.stories, payload.storyId,
                              Spread(storyOf(s, payload.storyId),
                                     [title |-> payload.title,
                                      description |-> payload.description,
                                      editMode |-> FALSE]))]

storyChangedLog(username, payload, old, new, event) ==
    Message(username \o " changed story \"" \o payload.title \o "\"")

storyTrashedFn(s, payload, event) ==
    [s EXCEPT !.highlightedStory = IF s.highlightedStory = payload.storyId THEN Undef ELSE @,
              !.stories = Put(s.stories, payload.storyId,
                              Put(storyOf(s, payload.storyId), "trashed", TRUE))]

storyTrashedLog(username, payload, old, new, event) ==
    Message(username \o " moved story \"" \o Get(old.stories[payload.storyId], "title")
            \o "\" to trash")

storyRestoredFn(s, payload, event) ==
    [s EXCEPT !.stories = Put(s.stories, payload.storyId,
                              Put(storyOf(s, payload.storyId), "trashed", FALSE))]

storyRestoredLog(username, payload, old, new, event) ==
    Message(username \o " restored story \"" \o Get(old.stories[payload.storyId], "title")
            \o "\" from trash")

storyDeletedFn(s, payload, event) ==
    [s EXCEPT !.stories = Del(s.stories, payload.storyId)]

storyDeletedLog(username, payload, old, new, event) ==
    LET story == old.stories[payload.storyId]
        logline == username \o " deleted story \"" \o Get(story, "title") \o "\""
    IN IF "consensus" \in DOMAIN story /\ story.consensus # 0
       THEN Message(logline \o ". It was estimated " \o ToString(story.consensus))
       ELSE Message(logline)

\* storySelectedFn leaving the applause as it is.
storySelectedFnKeepsApplause(s, payload, event) ==
    [s EXCEPT !.selectedStory = payload.storyId,
              !.highlightedStory = OrElse(s.highlightedStory, payload.storyId)]

storySelectedFn(s, payload, event) ==
    [s EXCEPT !.selectedStory = payload.storyId,
              !.highlightedStory = OrElse(s.highlightedStory, payload.storyId),
              !.applause = FALSE]

storySelectedLog(username, payload, old, new, event) ==
    IF Truthy(payload.storyId)
    THEN Message(username \o " selected current story \""
                 \o Get(new.stories[payload.storyId], "title") \o "\"")
    ELSE Message("Currently no story is selected")

\* importFailedFn flagging the failure as an unseen error.
importFailedFnFlagsError(s, payload, event) == [s EXCEPT !.unseenError = TRUE]

importFailedFn(s, payload, event) == s

importFailedLog(username, payload, old, new, event) ==
    Message("CSV import failed. " \o payload.message)

\* --------------------------------------------------------- users

\* {...state.users[userId]}: the user's properties, none when it is unknown.
userOf(s, userId) == IF userId \in DOMAIN s.users THEN s.users[userId] ELSE Empty

usernameSetFn(s, payload, event) ==
    [s EXCEPT !.users = Put(s.users, event.userId,
                            Put(userOf(s, event.userId), "username", payload.username)),
              !.presetUsername = IF s.userId = event.userId THEN payload.username ELSE @]

usernameSetLog(username, payload, old, new, event) ==
    LET oldUsername == Get(old.users[event.userId], "username")
        newUsername == payload.username
    IN IF Truthy(oldUsername) /\ oldUsername # newUsername
       THEN Message("\"" \o oldUsername \o "\" is now called \"" \o newUsername \o "\"")
       ELSE IF ~Truthy(oldUsername) /\ Truthy(newUsername)
       THEN Message("New user is now called \"" \o newUsername \o "\"")
       ELSE NoMessage

emailSetFn(s, payload, event) ==
    [s EXCEPT !.users = Put(s.users, event.userId,
                            Spread(userOf(s, event.userId),
                                   [email |-> payload.email, emailHash |-> payload.emailHash])),
              !.presetEmail = IF s.userId = event.userId THEN payload.email ELSE @]

emailSetLog(username, payload, old, new, event) ==
    Message(Get(old.users[event.userId], "username") \o " set his/her email address")

avatarSetFn(s, payload, event) ==
    [s EXCEPT !.users = Put(s.users, event.userId,
                            Put(userOf(s, event.userId), "avatar", payload.avatar)),
              !.presetAvatar = IF s.userId = event.userId THEN payload.avatar ELSE @]

avatarSetLog(username, payload, old, new, event) ==
    Message(OrElse(Get(old.users[event.userId], "username"), "New user")
            \o " set his/her avatar")

excludedFromEstimationsFn(s, payload, event) ==
    [s EXCEPT !.users = Put(s.users, event.userId,
                            Put(userOf(s, event.userId), "excluded", TRUE))]

excludedFromEstimationsLog(username, payload, old, new, event) ==
    Message(username \o " is now excluded from estimations")

includedInEstimationsFn(s, payload, event) ==
    [s EXCEPT !.users = Put(s.users, event.userId,
                            Put(userOf(s, event.userId), "excluded", FALSE))]

includedInEstimationsLog(username, payload, old, new, event) ==
    Message(username \o " is no longer excluded from estimations")

\* --------------------------------------------------- estimations

\* {...state.estimations[storyId]}: the story's estimates, none when it has none.
estimationsOf(s, storyId) ==
    IF storyId \in DOMAIN s.estimations THEN s.estimations[storyId] ELSE Empty

\* storyEstimateGivenFn keeping no estimate of the story but the new one.
storyEstimateGivenFnReplaces(s, payload, event) ==
    [s EXCEPT !.estimations = Put(s.estimations, payload.storyId,
                                  Put(Empty, event.userId, payload.value))]

storyEstimateGivenFn(s, payload, event) ==
    [s EXCEPT !.estimations = Put(s.estimations, payload.storyId,
                                  Put(estimationsOf(s, payload.storyId),
                                      event.userId, payload.value))]

\* storyEstimateGivenLog telling the room about the estimate.
storyEstimateGivenLogLeaks(username, payload, old, new, event) ==
    Message(username \o " estimated story \"" \o payload.storyId \o "\"")

\* do not log
storyEstimateGivenLog(username, payload, old, new, event) == NoLogObject

consensusAchievedFn(s, payload, event) ==
    [s EXCEPT !.applause = TRUE,
              !.stories = Put(s.stories, payload.storyId,
                              Put(storyOf(s, payload.storyId), "consensus", payload.value))]

consensusAchievedLog(username, payload, old, new, event) ==
    LET matchingCardConfig ==
            getCardConfigForValue(old.cardConfig, new.stories[payload.storyId].consensus)
    IN Message("Consensus achieved for story \""
               \o Get(new.stories[payload.storyId], "title") \o "\": "
               \o (IF matchingCardConfig # Undef THEN matchingCardConfig ELSE "-"))

storyEstimateClearedFn(s, payload, event) ==
    [s EXCEPT !.estimations = Put(s.estimations, payload.storyId,
                                  Del(estimationsOf(s, payload.storyId), event.userId))]

\* do not log
storyEstimateClearedLog(username, payload, old, new, event) == NoLogObject

revealedFn(s, payload, event) ==
    [s EXCEPT !.stories = Put(s.stories, payload.storyId,
                              Put(storyOf(s, payload.storyId), "revealed", TRUE))]

revealedLog(username, payload, old, new, event) ==
    IF payload.manually
    THEN Message(username \o " manually revealed estimates for story \""
                 \o Get(new.stories[payload.storyId], "title") \o "\"")
    ELSE Message("Estimates were automatically revealed for story \""
                 \o Get(new.stories[payload.storyId], "title") \o "\"")

\* newEstimationRoundStartedFn leaving the story's estimations in place.
newEstimationRoundStartedFnKeepsEstimations(s, payload, event) ==
    [s EXCEPT !.applause = FALSE,
              !.stories = Put(s.stories, payload.storyId,
                              Del(Put(storyOf(s, payload.storyId), "revealed", FALSE),
                                  "consensus"))]

\* consensus: undefined and estimations[storyId]: undefined leave properties
\* that hold undefined: they are modelled as absent.
newEstimationRoundStartedFn(s, payload, event) ==
    [s EXCEPT !.applause = FALSE,
              !.stories = Put(s.stories, payload.storyId,
                              Del(Put(storyOf(s, payload.storyId), "revealed", FALSE),
                                  "consensus")),
              !.estimations = Del(s.estimations, payload.storyId)]

newEstimationRoundStartedLog(username, payload, old, new, event) ==
    Message(username \o " started a new estimation round for story \""
            \o Get(new.stories[payload.storyId], "title") \o "\"")

\* ------------------------------------------------- room settings

cardConfigSetFn(s, payload, event) == [s EXCEPT !.cardConfig = payload.cardConfig]

cardConfigSetLog(username, payload, old, new, event) ==
    Message(username \o " set new custom card configuration for this room")

autoRevealOnFn(s, payload, event) == [s EXCEPT !.autoReveal = TRUE]

autoRevealOnLog(username, payload, old, new, event) ==
    Message(username \o " enabled auto reveal for this room")

autoRevealOffFn(s, payload, event) == [s EXCEPT !.autoReveal = FALSE]

autoRevealOffLog(username, payload, old, new, event) ==
    Message(username \o " disabled auto reveal for this room")

passwordSetFn(s, payload, event) == [s EXCEPT !.passwordProtected = TRUE]

passwordSetLog(username, payload, old, new, event) ==
    Message(username \o " set a password for this room")

passwordClearedFn(s, payload, event) == [s EXCEPT !.passwordProtected = FALSE]

passwordClearedLog(username, payload, old, new, event) ==
    Message(username \o " removed password protection for this room")

tokenIssuedFn(s, payload, event) == [s EXCEPT !.userToken = payload.token]

\* do not log
tokenIssuedLog(username, payload, old, new, event) == NoLogObject

commandRejectedFn(s, payload, event) == [s EXCEPT !.unseenError = TRUE]

\* commandRejectedLog returning the message as a plain string.
commandRejectedLogPlain(username, payload, old, new, event) ==
    Message("Command \"" \o payload.command.name \o "\" was not successful. \n "
            \o payload.reason)

commandRejectedLog(username, payload, old, new, event) ==
    ErrorMessage("Command \"" \o payload.command.name \o "\" was not successful. \n "
                 \o payload.reason, TRUE)

\* ------------------------------------------- the table of handlers

\* The action types that have an entry in eventActionHandlers.
HandlerTypes == {EVENT_ACTION_TYPES[name] : name \in DOMAIN EVENT_ACTION_TYPES}

\* eventActionHandlers[type].fn(state, payload, event)
handlerFn(type, s, payload, event, store) ==
    CASE type = "ROOM_CREATED" -> roomCreatedFn(s, payload, event)
      [] type = "JOINED_ROOM" -> joinedRoomFn(s, payload, event)
      [] type = "LEFT_ROOM" -> leftRoomFn(s, payload, event, store)
      [] type = "KICKED" -> kickedFn(s, payload, event, store)
      [] type = "CONNECTION_LOST" -> connectionLostFn(s, payload, event)
      [] type = "STORY_ADDED" -> storyAddedFn(s, payload, event)
      [] type = "STORY_CHANGED" -> storyChangedFn(s, payload, event)
      [] type = "STORY_TRASHED" -> storyTrashedFn(s, payload, event)
      [] type = "STORY_RESTORED" -> storyRestoredFn(s, payload, event)
      [] type = "STORY_DELETED" -> storyDeletedFn(s, payload, event)
      [] type = "STORY_SELECTED" -> storySelectedFn(s, payload, event)
      [] type = "IMPORT_FAILED" -> importFailedFn(s, payload, event)
      [] type = "USERNAME_SET" -> usernameSetFn(s, payload, event)
      [] type = "EMAIL_SET" -> emailSetFn(s, payload, event)
      [] type = "AVATAR_SET" -> avatarSetFn(s, payload, event)
      [] type = "EXCLUDED_FROM_ESTM" -> excludedFromEstimationsFn(s, payload, event)
      [] type = "INCLUDED_IN_ESTM" -> includedInEstimationsFn(s, payload, event)
      [] type = "STORY_ESTIMATE_GIVEN" -> storyEstimateGivenFn(s, payload, event)
      [] type = "CONSENSUS_ACHIEVED" -> consensusAchievedFn(s, payload, event)
      [] type = "STORY_ESTIMATE_CLEARED" -> storyEstimateClearedFn(s, payload, event)
      [] type = "REVEALED" -> revealedFn(s, payload, event)
      [] type = "NEW_ESTIMATION_ROUND_STARTED" -> newEstimationRoundStartedFn(s, payload, event)
      [] type = "CARD_CONFIG_SET" -> cardConfigSetFn(s, payload, event)
      [] type = "AUTO_REVEAL_ON" -> autoRevealOnFn(s, payload, event)
      [] type = "AUTO_REVEAL_OFF" -> autoRevealOffFn(s, payload, event)
      [] type = "PASSWORD_SET" -> passwordSetFn(s, payload, event)
      [] type = "PASSWORD_CLEARED" -> passwordClearedFn(s, payload, event)
      [] type = "TOKEN_ISSUED" -> tokenIssuedFn(s, payload, event)
      [] type = "COMMAND_REJECTED" -> commandRejectedFn(s, payload, event)

\* handlerSettings keeping the name, email and avatar of whichever user the
\* event is about.
handlerSettingsOfAnyUser(type, s, payload, event, store) ==
    CASE type = "JOINED_ROOM" /\ youJoinedFn(s, event) ->
             [store EXCEPT !.presetUserId = event.userId]
      [] type = "USERNAME_SET" -> [store EXCEPT !.presetUsername = payload.username]
      [] type = "EMAIL_SET" -> [store EXCEPT !.presetEmail = payload.email]
      [] type = "AVATAR_SET" -> [store EXCEPT !.presetAvatar = payload.avatar]
      [] OTHER -> store

\* What the handler's fn writes to the client settings store.
handlerSettings(type, s, payload, event, store) ==
    CASE type = "JOINED_ROOM" /\ youJoinedFn(s, event) ->
             [store EXCEPT !.presetUserId = event.userId]
      [] type = "USERNAME_SET" /\ s.userId = event.userId ->
             [store EXCEPT !.presetUsername = payload.username]
      [] type = "EMAIL_SET" /\ s.userId = event.userId ->
             [store EXCEPT !.presetEmail = payload.email]
      [] type = "AVATAR_SET" /\ s.userId = event.userId ->
             [store EXCEPT !.presetAvatar = payload.avatar]
      [] OTHER -> store

\* eventActionHandlers[type].log, applied as updateActionLog applies it.
handlerLog(type, username, payload, old, new, event) ==
    CASE type = "ROOM_CREATED" -> roomCreatedLog(username, payload, old, new, event)
      [] type = "JOINED_ROOM" -> joinedRoomLog(username, payload, old, new, event)
      [] type = "LEFT_ROOM" -> leftRoomLog(username, payload, old, new, event)
      [] type = "KICKED" -> kickedLog(username, payload, old, new, event)
      [] type = "CONNECTION_LOST" -> connectionLostLog(username, payload, old, new, event)
      [] type = "STORY_ADDED" -> storyAddedLog(username, payload, old, new, event)
      [] type = "STORY_CHANGED" -> storyChangedLog(username, payload, old, new, event)
      [] type = "STORY_TRASHED" -> storyTrashedLog(username, payload, old, new, event)
      [] type = "STORY_RESTORED" -> storyRestoredLog(username, payload, old, new, event)
      [] type = "STORY_DELETED" -> storyDeletedLog(username, payload, old, new, event)
      [] type = "STORY_SELECTED" -> storySelectedLog(username, payload, old, new, event)
      [] type = "IMPORT_FAILED" -> importFailedLog(username, payload, old, new, event)
      [] type = "USERNAME_SET" -> usernameSetLog(username, payload, old, new, event)
      [] type = "EMAIL_SET" -> emailSetLog(username, payload, old, new, event)
      [] type = "AVATAR_SET" -> avatarSetLog(username, payload, old, new, event)
      [] type = "EXCLUDED_FROM_ESTM" ->
             excludedFromEstimationsLog(username, payload, old, new, event)
      [] type = "INCLUDED_IN_ESTM" ->
             includedInEstimationsLog(username, payload, old, new, event)
      [] type = "STORY_ESTIMATE_GIVEN" ->
             storyEstimateGivenLog(username, payload, old, new, event)
      [] type = "CONSENSUS_ACHIEVED" ->
             consensusAchievedLog(username, payload, old, new, event)
      [] type = "STORY_ESTIMATE_CLEARED" ->
             storyEstimateClearedLog(username, payload, old, new, event)
      [] type = "REVEALED" -> revealedLog(username, payload, old, new, event)
      [] type = "NEW_ESTIMATION_ROUND_STARTED" ->
             newEstimationRoundStartedLog(username, payload, old, new, event)
      [] type = "CARD_CONFIG_SET" -> cardConfigSetLog(username, payload, old, new, event)
      [] type = "AUTO_REVEAL_ON" -> autoRevealOnLog(username, payload, old, new, event)
      [] type = "AUTO_REVEAL_OFF" -> autoRevealOffLog(username, payload, old, new, event)
      [] type = "PASSWORD_SET" -> passwordSetLog(username, payload, old, new, event)
      [] type = "PASSWORD_CLEARED" -> passwordClearedLog(username, payload, old, new, event)
      [] type = "TOKEN_ISSUED" -> tokenIssuedLog(username, payload, old, new, event)
      [] type = "COMMAND_REJECTED" -> commandRejectedLog(username, payload, old, new, event)

\* Whether the handler's log function raises a TypeError: it reads a property
\* of a user or a story that the state it looks in does not hold.
handlerLogThrows(type, payload, old, new, event) ==
    CASE type = "JOINED_ROOM" -> Truthy(old.userId) /\ event.userId \notin DOMAIN new.users
      [] type = "LEFT_ROOM" -> event.userId \notin DOMAIN old.users
      [] type = "KICKED" -> \/ Get(payload, "userId") \notin DOMAIN old.users
                            \/ event.userId \notin DOMAIN old.users
      [] type \in {"STORY_TRASHED", "STORY_RESTORED", "STORY_DELETED"} ->
             payload.storyId \notin DOMAIN old.stories
      [] type = "STORY_SELECTED" ->
             Truthy(payload.storyId) /\ payload.storyId \notin DOMAIN new.stories
      [] type \in {"USERNAME_SET", "EMAIL_SET", "AVATAR_SET"} ->
             event.userId \notin DOMAIN old.users
      [] OTHER -> FALSE

\* ------------------------------------------------ updateActionLog

\* The entry updateActionLog builds; formatTime(Date.now()) and uuid() are
\* the clock's reading.
newLogItem(messageObject, tick) ==
    IF messageObject.kind = "string"
    THEN [tstamp |-> tick, logId |-> tick, message |-> messageObject.message]
    ELSE [tstamp |-> tick, logId |-> tick, message |-> messageObject.message,
          isError |-> messageObject.isError]

\* !messageObject
NoMessageObject(messageObject) ==
    \/ messageObject.kind \in {"absent", "undefined"}
    \/ messageObject.kind = "string" /\ messageObject.message = ""

\* updateActionLog putting the new entry at the end of the log.
updateActionLogAppends(type, old, modifiedState, event, tick) ==
    LET matchingUser == event.userId \in DOMAIN modifiedState.users
        username == IF matchingUser
                    THEN OrElse(Get(modifiedState.users[event.userId], "username"), "")
                    ELSE ""
        messageObject == handlerLog(type, username, event.payload, old, modifiedState, event)
    IN IF NoMessageObject(messageObject)
       THEN modifiedState
       ELSE [modifiedState EXCEPT !.actionLog = @ \o <<newLogItem(messageObject, tick)>>]

\* updateActionLog marking the error as seen whenever it writes an entry.
updateActionLogClearsError(type, old, modifiedState, event, tick) ==
    LET matchingUser == event.userId \in DOMAIN modifiedState.users
        username == IF matchingUser
                    THEN OrElse(Get(modifiedState.users[event.userId], "username"), "")
                    ELSE ""
        messageObject == handlerLog(type, username, event.payload, old, modifiedState, event)
    IN IF NoMessageObject(messageObject)
       THEN modifiedState
       ELSE [modifiedState EXCEPT !.actionLog = <<newLogItem(messageObject, tick)>> \o @,
                                  !.unseenError = FALSE]

updateActionLog(type, old, modifiedState, event, tick) ==
    LET matchingUser == event.userId \in DOMAIN modifiedState.users
        username == IF matchingUser
                    THEN OrElse(Get(modifiedState.users[event.userId], "username"), "")
                    ELSE ""
        messageObject == handlerLog(type, username, event.payload, old, modifiedState, event)
    IN IF NoMessageObject(messageObject)
       THEN modifiedState
       ELSE [modifiedState EXCEPT !.actionLog = <<newLogItem(messageObject, tick)>> \o @]

\* ---------------------------------------------------- eventReducer

\* The reasons the backend gives for a rejected command, each with the
\* fragments String.includes finds in it.
Reasons ==
    [ NotAuthorized |-> [text |-> "Not Authorized!", parts |-> {"Not Authorized"}],
      InvalidUsername |->
          [text |-> "Command validation Error during \"joinRoom\": /username does not match",
           parts |-> {"validation Error", "/username"}],
      InvalidEmail |->
          [text |-> "Command validation Error during \"joinRoom\": /email does not match",
           parts |-> {"validation Error"}],
      Other |-> [text |-> "Precondition Error during \"joinRoom\"", parts |-> {}] ]

\* reason.includes(fragment)
Includes(reason, fragment) ==
    \E r \in DOMAIN Reasons : Reasons[r].text = reason /\ fragment \in Reasons[r].parts

isFailedJoinRoom(event) ==
    /\ event.name = "commandRejected"
    /\ "command" \in DOMAIN event.payload
    /\ event.payload.command.name = "joinRoom"

\* What a call of the reducer leaves behind: the state it returns, the input
\* object as the call left it, the client settings store, and whether the
\* call raised an error instead of returning.
Outcome(returned, input, store, raised) ==
    [state |-> returned, input |-> input, settings |-> store, threw |-> raised]

\* The failed join whose reason is a username validation error.
isUsernameValidationError(event) ==
    /\ isFailedJoinRoom(event)
    /\ Includes(event.payload.reason, "validation Error")
    /\ Includes(event.payload.reason, "/username")

\* usernameValidationError clearing the preset in the state alone.
usernameValidationErrorStateOnly(s, event, store) ==
    Outcome([s EXCEPT !.presetUsername = ""], s, store, FALSE)

usernameValidationError(s, event, store) ==
    Outcome([s EXCEPT !.presetUsername = ""], s, [store EXCEPT !.presetUsername = ""], FALSE)

\* The failed join to a password-protected room.
isNotAuthorized(event) ==
    isFailedJoinRoom(event) /\ Includes(event.payload.reason, "Not Authorized")

\* notAuthorized flagging the rejection as an unseen error as well.
notAuthorizedFlagsError(s, event, store) ==
    Outcome([s EXCEPT !.authorizationFailed = event.payload.command.roomId,
                      !.unseenError = TRUE], s, store, FALSE)

notAuthorized(s, event, store) ==
    Outcome([s EXCEPT !.authorizationFailed = event.payload.command.roomId], s, store, FALSE)

\* adoptRoomId taking the room of every joinedRoom, whether or not a roomId is set.
adoptRoomIdAlways(s, event) ==
    IF event.name = "joinedRoom"
    THEN [s EXCEPT !.roomId = event.roomId]
    ELSE s

\* if we created a new room, and then joined, we don't have a roomId yet:
\* the assignment is made to the input object itself.
adoptRoomId(s, event) ==
    IF ~Truthy(s.roomId) /\ event.name = "joinedRoom"
    THEN [s EXCEPT !.roomId = event.roomId]
    ELSE s

\* Events from other rooms do not affect us.
\* differentRoomId without the comparison: no event is taken for another room's.
differentRoomIdIgnored(s, event) == FALSE

differentRoomId(s, event) == s.roomId # event.roomId

\* noMatchingHandler reporting the event to the user as an unseen error.
noMatchingHandlerFlagsError(s, act, store) ==
    Outcome([s EXCEPT !.unseenError = TRUE], s, store, FALSE)

\* No matching backend-event handler: a warning is logged, the state returned.
noMatchingHandler(s, act, store) == Outcome(s, s, store, FALSE)

\* The matching handler's fn, then its log.
applyHandler(s, act, store, tick) ==
    LET event == act.event
        modifiedState == handlerFn(act.type, s, event.payload, event, store)
        written == handlerSettings(act.type, s, event.payload, event, store)
    IN IF handlerLogThrows(act.type, event.payload, s, modifiedState, event)
       THEN Outcome(s, s, written, TRUE)
       ELSE Outcome(updateActionLog(act.type, s, modifiedState, event, tick), s, written, FALSE)

eventReducer(s, act, store, tick) ==
    LET event == act.event
        input == adoptRoomId(s, event)
    IN IF isUsernameValidationError(event) THEN usernameValidationError(s, event, store)
       ELSE IF isNotAuthorized(event) THEN notAuthorized(s, event, store)
       ELSE IF differentRoomId(input, event) THEN Outcome(input, input, store, FALSE)
       ELSE IF act.type \notin HandlerTypes THEN noMatchingHandler(input, act, store)
       ELSE applyHandler(input, act, store, tick)

\* ------------------------------------------------ the backend's events

Event(name, roomId, userId, correlationId, payload) ==
    [name |-> name, roomId |-> roomId, userId |-> userId,
     correlationId |-> correlationId, payload |-> payload]

\* The action the client dispatches for a backend event: its type is the
\* entry of EVENT_ACTION_TYPES for the event's name, undefined when it has none.
EventAction(event) == [type |-> Get(EVENT_ACTION_TYPES, event.name), event |-> event]

\* The room as the server sends it to a user who joins: two users and two
\* stories, the first one estimated, revealed and settled.
FullRoom ==
    [ users |-> << [id |-> "u1", username |-> "A"], [id |-> "u2", username |-> "B"] >>,
      stories |-> << [id |-> "s1", title |-> "T1", description |-> "d", createdAt |-> 100,
                      revealed |-> TRUE, consensus |-> 5,
                      estimations |-> ("u1" :> 5) @@ ("u2" :> 5)],
                     [id |-> "s2", title |-> "T2", description |-> "d", createdAt |-> 200,
                      estimations |-> ("u1" :> 3)] >>,
      selectedStory |-> "s1",
      cardConfig |-> Cards,
      autoReveal |-> TRUE,
      passwordProtected |-> TRUE ]

\* A room that holds nothing but the user who joins, who has no name yet.
NewRoom(userId) ==
    [ users |-> << [id |-> userId] >>,
      stories |-> <<>>,
      selectedStory |-> Undef,
      cardConfig |-> Cards,
      autoReveal |-> FALSE,
      passwordProtected |-> FALSE ]

JoinedRoomEvents ==
    { Event("joinedRoom", r, u, c, p) :
        r \in Rooms, u \in Users, c \in CommandIds \cup {Undef}, p \in {FullRoom} }
    \cup { Event("joinedRoom", r, u, c, NewRoom(u)) :
             r \in Rooms, u \in Users, c \in CommandIds \cup {Undef} }

\* leftRoom names the user who left in the event itself; the second form names
\* it in the payload alone.
LeftRoomEvents ==
    { Event("leftRoom", r, u, Undef, Empty) : r \in Rooms, u \in Users }
    \cup { Event("leftRoom", r, Undef, Undef, [userId |-> u]) : r \in Rooms, u \in Users }

KickedEvents ==
    { Event("kicked", r, u, Undef, [userId |-> k]) : r \in Rooms, u \in Users, k \in Users }

CommandRejectedEvents ==
    { Event("commandRejected", r, "u1", Undef,
            [command |-> [name |-> "joinRoom", roomId |-> r], reason |-> Reasons[x].text]) :
        r \in Rooms, x \in DOMAIN Reasons }
    \cup { Event("commandRejected", r, "u1", Undef,
                 [command |-> [name |-> "addStory", roomId |-> r], reason |-> Reasons[x].text]) :
             r \in Rooms, x \in {"NotAuthorized", "Other"} }

\* Events about the user the event names.
UserEvents ==
    { Event(n, r, u, Undef, Empty) :
        n \in {"connectionLost", "excludedFromEstimations", "includedInEstimations"},
        r \in Rooms, u \in Users }
    \cup { Event("usernameSet", r, u, Undef, [username |-> n]) :
             r \in Rooms, u \in Users, n \in {"A", "C"} }
    \cup { Event("emailSet", r, u, Undef, [email |-> "a@b.c", emailHash |-> "hash"]) :
             r \in Rooms, u \in Users }
    \cup { Event("avatarSet", r, u, Undef, [avatar |-> "avatar1"]) : r \in Rooms, u \in Users }

\* Events about a story.
StoryEvents ==
    { Event("storyAdded", r, "u1", Undef,
            [storyId |-> s, title |-> "Feature X", description |-> "d", createdAt |-> 100]) :
        r \in Rooms, s \in Stories \cup {"s3"} }
    \cup { Event("storyChanged", r, "u1", Undef,
                 [storyId |-> s, title |-> "Feature Y", description |-> "e"]) :
             r \in Rooms, s \in Stories }
    \cup { Event(n, r, "u1", Undef, [storyId |-> s]) :
             n \in {"storyTrashed", "storyRestored", "storyDeleted", "newEstimationRoundStarted"},
             r \in Rooms, s \in Stories }
    \cup { Event("storySelected", r, "u1", Undef, [storyId |-> s]) :
             r \in Rooms, s \in Stories \cup {Undef} }
    \cup { Event("revealed", r, "u1", Undef, [storyId |-> s, manually |-> m]) :
             r \in Rooms, s \in Stories, m \in BOOLEAN }
    \cup { Event("consensusAchieved", r, "u1", Undef, [storyId |-> s, value |-> 3]) :
             r \in Rooms, s \in Stories }

EstimateEvents ==
    { Event("storyEstimateGiven", r, u, Undef, [storyId |-> s, value |-> 3]) :
        r \in Rooms, u \in Users, s \in Stories }
    \cup { Event("storyEstimateCleared", r, u, Undef, [storyId |-> s]) :
             r \in Rooms, u \in Users, s \in Stories }

\* Events about the room, and an event the client has no handler for.
RoomEvents ==
    { Event("roomCreated", r, "u1", Undef, [id |-> r]) : r \in Rooms }
    \cup { Event("importFailed", r, "u1", Undef, [message |-> "bad csv"]) : r \in Rooms }
    \cup { Event("cardConfigSet", r, "u1", Undef, [cardConfig |-> Tail(Cards)]) : r \in Rooms }
    \cup { Event(n, r, "u1", Undef, Empty) :
             n \in {"autoRevealOn", "autoRevealOff", "passwordSet", "passwordCleared",
                    "moderatorSet"},
             r \in Rooms }
    \cup { Event("tokenIssued", r, "u1", Undef, [token |-> "jwt"]) : r \in Rooms }

Events ==
    JoinedRoomEvents \cup LeftRoomEvents \cup KickedEvents \cup CommandRejectedEvents
    \cup UserEvents \cup StoryEvents \cup EstimateEvents \cup RoomEvents

\* ---------------------------------------------------------- the actions

\* The client settings store holds the username kept from an earlier visit.
Init ==
    /\ settings = [presetUsername |-> "A", presetEmail |-> Undef,
                   presetAvatar |-> Undef, presetUserId |-> Undef]
    /\ oldSettings = settings
    /\ state = initialState(settings)
    /\ oldState = state
    /\ snapshot = state
    /\ action = [type |-> "@@INIT"]
    /\ threw = FALSE
    /\ now = 0
    /\ resolved = FALSE

\* The store reduces a backend event.  When the reducer raises an error the
\* store keeps the state object it held.
Deliver(event) ==
    LET outcome == eventReducer(state, EventAction(event), settings, now + 1)
        youJoined == /\ event.name = "joinedRoom"
                     /\ outcome.input.roomId = event.roomId
                     /\ youJoinedFn(state, event)
                     /\ ~outcome.threw
    IN /\ state' = IF outcome.threw THEN outcome.input ELSE outcome.state
       /\ oldState' = state
       /\ snapshot' = outcome.input
       /\ action' = EventAction(event)
       /\ threw' = outcome.threw
       /\ settings' = outcome.settings
       /\ oldSettings' = settings
       /\ now' = now + 1
       /\ resolved' = (resolved \/ youJoined)

\* The transport delivers a backend event.
EventReceived == now < MaxEvents /\ \E event \in Events : Deliver(event)

\* The command layer sends a joinRoom command and records its id.
JoinCommandSent ==
    \E id \in CommandIds :
      /\ state.pendingJoinCommandId # id
      /\ state' = [state EXCEPT !.pendingJoinCommandId = id]
      /\ oldState' = state
      /\ snapshot' = state
      /\ action' = [type |-> COMMAND_SENT, command |-> [name |-> "joinRoom", id |-> id]]
      /\ threw' = FALSE
      /\ oldSettings' = settings
      /\ resolved' = FALSE
      /\ UNCHANGED <<settings, now>>

Next == EventReceived \/ JoinCommandSent

Spec == Init /\ [][Next]_vars

\* The events of an estimation round: joins, the selection of a story, estimates
\* given and cleared, reveal, consensus and the start of a new round.
RoundEvents ==
    { e \in Events : e.name \in { "joinedRoom", "storySelected", "storyEstimateGiven",
                                  "storyEstimateCleared", "revealed", "consensusAchieved",
                                  "newEstimationRoundStarted" } }

\* The transport delivers an event of an estimation round.
RoundEventReceived == now < MaxRoundEvents /\ \E event \in RoundEvents : Deliver(event)

NextRound == RoundEventReceived \/ JoinCommandSent

\* Longer runs of the events of estimation rounds alone.
SpecRound == Init /\ [][NextRound]_vars

\* The events of a session in room r1, from join to leave: joins into the
\* full room, users leaving and being kicked, a story added, an estimate
\* given, a command rejected.
SessionEvents ==
    { e \in Events :
        /\ e.roomId = "r1"
        /\ \/ e.name = "joinedRoom" /\ e.payload = FullRoom
           \/ e.name = "leftRoom" /\ e.payload = Empty
           \/ e.name = "kicked"
           \/ e.name = "storyAdded" /\ e.payload.storyId = "s1"
           \/ e.name = "storyEstimateGiven" /\ e.userId = "u1" /\ e.payload.storyId = "s1"
           \/ /\ e.name = "commandRejected"
              /\ e.payload.command.name = "addStory"
              /\ e.payload.reason = Reasons["Other"].text }

\* The transport delivers an event of a session.
SessionEventReceived == now < MaxSessionEvents /\ \E event \in SessionEvents : Deliver(event)

NextSession == SessionEventReceived \/ JoinCommandSent

\* Longer runs of one session's events.
SpecSession == Init /\ [][NextSession]_vars

\* The events of room r1 that bear on the applause: joins into the full
\* room, a consensus, the selection of a story, a new round, and users
\* leaving or being kicked.
ApplauseEvents ==
    { e \in Events :
        /\ e.roomId = "r1"
        /\ \/ e.name = "joinedRoom" /\ e.payload = FullRoom /\ e.userId = "u1"
           \/ e.name = "leftRoom" /\ e.payload = Empty
           \/ e.name = "kicked" /\ e.userId = "u2" /\ e.payload.userId = "u1"
           \/ e.name \in {"consensusAchieved", "storySelected", "newEstimationRoundStarted"} }

\* The transport delivers an event that bears on the applause.
ApplauseEventReceived ==
    now < MaxApplauseEvents /\ \E event \in ApplauseEvents : Deliver(event)

NextApplause == ApplauseEventReceived \/ JoinCommandSent

\* Runs of the events that bear on the applause.
SpecApplause == Init /\ [][NextApplause]_vars

\* The events of room r1 about its stories: the local user's join into the
\* full room, and stories added, selected, trashed, restored and deleted.
StoryRunEvents ==
    { e \in Events :
        /\ e.roomId = "r1"
        /\ \/ e.name = "joinedRoom" /\ e.payload = FullRoom /\ e.userId = "u1"
           \/ e.name \in {"storyAdded", "storySelected", "storyTrashed",
                           "storyRestored", "storyDeleted"} }

\* The event refers to no story the state does not hold: a storyAdded brings
\* its story, a storySelected may select none.
RefersToExistingStories(event) ==
    IF event.name \in {"joinedRoom", "storyAdded"} THEN TRUE
    ELSE IF event.name = "storySelected" /\ ~Truthy(event.payload.storyId) THEN TRUE
    ELSE event.payload.storyId \in DOMAIN state.stories

\* The transport delivers an event about the stories that the state holds.
StoryEventReceived ==
    /\ now < MaxStoryEvents
    /\ \E event \in StoryRunEvents : RefersToExistingStories(event) /\ Deliver(event)

NextStories == StoryEventReceived \/ JoinCommandSent

\* Runs of the events about stories, each about a story the state holds.
SpecStories == Init /\ [][NextStories]_vars

\* ------------------------------------------------------- properties

\* The last action delivered a backend event of the given name.
Received(name) == "event" \in DOMAIN action /\ action.event.name = name

\* The last event was addressed to the local room, or was a joinedRoom that
\* found no local room: the session guard let it pass.
InScope ==
    \/ oldState.roomId = action.event.roomId
    \/ ~Truthy(oldState.roomId) /\ action.event.name = "joinedRoom"

\* The last event was a rejected joinRoom command with the given reason.
FailedJoin(reason) ==
    /\ Received("commandRejected")
    /\ action.event.payload.command.name = "joinRoom"
    /\ action.event.payload.reason = Reasons[reason].text

\* Two room states agree on every field outside the given ones.
SameExcept(a, b, fields) == \A f \in (DOMAIN a) \ fields : a[f] = b[f]

\* The log is the old log with one new entry at its head.
OneEntryAdded == Len(state.actionLog) = Len(oldState.actionLog) + 1
                 /\ Tail(state.actionLog) = oldState.actionLog

\* C1 as stated: in a room, an event whose roomId differs from the local
\* roomId leaves the state as it was, whatever its type or payload.
C1_ScopeGuard_AsStated ==
    ( /\ "event" \in DOMAIN action
      /\ Truthy(oldState.roomId)
      /\ action.event.roomId # oldState.roomId )
    => (state = oldState /\ snapshot = oldState /\ ~threw)

\* C1, amended: an event whose roomId differs from the local roomId, other
\* than a joinedRoom that finds no local roomId and other than a rejected
\* joinRoom command whose reason is a username validation error or "Not
\* Authorized", leaves the state, the input object and the settings store as
\* they were.
C1_ScopeGuard ==
    ( /\ "event" \in DOMAIN action
      /\ action.event.roomId # oldState.roomId
      /\ ~(action.event.name = "joinedRoom" /\ ~Truthy(oldState.roomId))
      /\ ~FailedJoin("InvalidUsername")
      /\ ~FailedJoin("NotAuthorized") )
    => (state = oldState /\ snapshot = oldState /\ ~threw /\ settings = oldSettings)

\* C1's case: in a room, an event of another room whose handler would have
\* changed the state.
C1_Witness ==
    /\ Received("storyAdded")
    /\ Truthy(oldState.roomId)
    /\ action.event.roomId # oldState.roomId
    /\ oldState.userId = "u1"

\* The local user is the subject of the last event, a leftRoom or a kicked of
\* the local room.
OwnLeave ==
    /\ Truthy(oldState.userId)
    /\ \/ Received("leftRoom") /\ action.event.userId = oldState.userId
       \/ Received("kicked") /\ action.event.payload.userId = oldState.userId
    /\ InScope

OwnJoin ==
    /\ Received("joinedRoom")
    /\ Truthy(oldState.pendingJoinCommandId)
    /\ action.event.correlationId = oldState.pendingJoinCommandId

\* The entities of a list, as a set.
Elements(list) == {list[i] : i \in DOMAIN list}

OtherJoin == Received("joinedRoom") /\ ~OwnJoin

C5_NoOpTypes_AsStated ==
    (Received("roomCreated") \/ Received("importFailed")) => state = oldState

\* C5, amended: a roomCreated or an importFailed event changes no field of
\* the state other than actionLog, which gets one new entry at its head when
\* the event is of the local room and stays as it was otherwise.
C5_NoOpTypes ==
    (Received("roomCreated") \/ Received("importFailed")) =>
        /\ ~threw
        /\ SameExcept(state, oldState, {"actionLog"})
        /\ snapshot = oldState
        /\ settings = oldSettings
        /\ IF oldState.roomId = action.event.roomId
           THEN /\ OneEntryAdded
                /\ state.actionLog[1].message \in
                     { "Room \"" \o Get(action.event.payload, "id") \o "\" created",
                       "CSV import failed. " \o Get(action.event.payload, "message") }
           ELSE state.actionLog = oldState.actionLog

\* C5's case: in a room with users and stories, an importFailed event of
\* that room.
C5_Witness ==
    /\ Received("importFailed")
    /\ oldState.roomId = action.event.roomId
    /\ oldState.stories # Empty
    /\ oldState.users # Empty

\* C6 as stated: with the local user and another user in users, a leftRoom
\* event of the local room that names the other user in its payload yields
\* users without that user, and a newest log entry "<username> left the
\* room".
C6_SomeoneElseLeft_AsStated ==
    ( /\ Received("leftRoom")
      /\ oldState.roomId = action.event.roomId
      /\ Truthy(oldState.userId)
      /\ oldState.userId \in DOMAIN oldState.users
      /\ Get(action.event.payload, "userId") \in (DOMAIN oldState.users) \ {oldState.userId} )
    => LET left == action.event.payload.userId
       IN /\ ~threw
          /\ state.users = Del(oldState.users, left)
          /\ state.actionLog # Empty
          /\ state.actionLog[1].message =
               OrElse(Get(oldState.users[left], "username"), "New user") \o " left the room"

\* C7: a newEstimationRoundStarted event for a story, of the local room,
\* leaves the story not revealed and without consensus, no estimate of any
\* user for it, applause false, and every other story and its estimations as
\* they were.
C7_EstimationRoundReset ==
    (Received("newEstimationRoundStarted") /\ oldState.roomId = action.event.roomId) =>
        LET S == action.event.payload.storyId
        IN /\ ~threw
           /\ S \in DOMAIN state.stories
           /\ "revealed" \in DOMAIN state.stories[S]
           /\ state.stories[S].revealed = FALSE
           /\ "consensus" \notin DOMAIN state.stories[S]
           /\ S \notin DOMAIN state.estimations
           /\ state.applause = FALSE
           /\ (DOMAIN state.stories) \ {S} = (DOMAIN oldState.stories) \ {S}
           /\ \A t \in (DOMAIN oldState.stories) \ {S} : state.stories[t] = oldState.stories[t]
           /\ (DOMAIN state.estimations) \ {S} = (DOMAIN oldState.estimations) \ {S}
           /\ \A t \in (DOMAIN oldState.estimations) \ {S} :
                state.estimations[t] = oldState.estimations[t]

\* C7's case: a new round for a story that was revealed, had a consensus and
\* estimates, next to another story with estimates, while the applause for a
\* consensus was on.
C7_Witness ==
    /\ oldState.applause = TRUE
    /\ Received("newEstimationRoundStarted")
    /\ oldState.roomId = action.event.roomId
    /\ action.event.payload.storyId = "s1"
    /\ "s1" \in DOMAIN oldState.stories
    /\ "consensus" \in DOMAIN oldState.stories["s1"]
    /\ "revealed" \in DOMAIN oldState.stories["s1"]
    /\ oldState.stories["s1"].revealed = TRUE
    /\ "s1" \in DOMAIN oldState.estimations
    /\ "s2" \in DOMAIN state.estimations

\* C8: a storyEstimateGiven, a storyEstimateCleared or a tokenIssued event
\* adds no entry to actionLog.
C8_LogSuppression ==
    ( \/ Received("storyEstimateGiven")
      \/ Received("storyEstimateCleared")
      \/ Received("tokenIssued") )
    => (~threw /\ state.actionLog = oldState.actionLog)

\* C8's case: an estimate given that changed estimations, in a room whose log
\* is not empty.
C8_Witness ==
    /\ Received("storyEstimateGiven")
    /\ state.estimations # oldState.estimations
    /\ state.actionLog # Empty

\* C9: a rejected joinRoom command whose reason is "Not Authorized" sets
\* authorizationFailed to the roomId of the rejected command and changes no
\* other field, whichever room the client is in: neither the log nor
\* unseenError shows it, and the settings store is not written.
C9_AuthorizationFailure ==
    FailedJoin("NotAuthorized") =>
        /\ ~threw
        /\ state.authorizationFailed = action.event.payload.command.roomId
        /\ SameExcept(state, oldState, {"authorizationFailed"})
        /\ snapshot = oldState
        /\ settings = oldSettings

\* C9's case: the rejection arrives for the room the client is in, where the
\* generic handler of commandRejected would have run.
C9_Witness ==
    /\ FailedJoin("NotAuthorized")
    /\ Truthy(oldState.roomId)
    /\ oldState.roomId = action.event.roomId
    /\ oldState.authorizationFailed = Undef

\* C10: a rejected joinRoom command whose reason is a username
\* validation error sets presetUsername to '' in the state and in the settings
\* store, adds no log entry, does not set unseenError and changes no other
\* field of the state or of the settings store.
C10_ValidationFailure ==
    FailedJoin("InvalidUsername") =>
        /\ ~threw
        /\ state.presetUsername = ""
        /\ settings.presetUsername = ""
        /\ SameExcept(state, oldState, {"presetUsername"})
        /\ SameExcept(settings, oldSettings, {"presetUsername"})
        /\ snapshot = oldState

\* C10's case: a username was preset in the state and in the settings store.
C10_Witness ==
    /\ FailedJoin("InvalidUsername")
    /\ oldState.presetUsername = "A"
    /\ oldSettings.presetUsername = "A"
    /\ oldState.roomId = action.event.roomId

\* C11: a commandRejected event of the local room that is not a failed join
\* with a username validation or "Not Authorized" reason sets unseenError and
\* puts exactly one new entry, flagged isError, at the head of actionLog,
\* changing no other field; the entry any other event adds is not flagged.
C11_GenericRejection ==
    /\ ( /\ Received("commandRejected")
         /\ oldState.roomId = action.event.roomId
         /\ ~isUsernameValidationError(action.event)
         /\ ~isNotAuthorized(action.event) )
       => /\ ~threw
          /\ state.unseenError = TRUE
          /\ OneEntryAdded
          /\ "isError" \in DOMAIN state.actionLog[1]
          /\ state.actionLog[1].isError = TRUE
          /\ state.actionLog[1].message =
               "Command \"" \o action.event.payload.command.name
               \o "\" was not successful. \n " \o action.event.payload.reason
          /\ SameExcept(state, oldState, {"unseenError", "actionLog"})
    /\ ( /\ "event" \in DOMAIN action
         /\ ~Received("commandRejected")
         /\ state.actionLog # oldState.actionLog )
       => /\ state.actionLog # Empty
          /\ "isError" \notin DOMAIN state.actionLog[1]

\* C11's case: in a room, a joinRoom command rejected for an invalid email, a
\* validation error that is not about the username, while no error was
\* pending and the log already held entries.
C11_Witness ==
    /\ FailedJoin("InvalidEmail")
    /\ Truthy(oldState.roomId)
    /\ oldState.roomId = action.event.roomId
    /\ oldState.unseenError = FALSE
    /\ oldState.actionLog # Empty

C13_SnapshotImmutability_AsStated ==
    "event" \in DOMAIN action => snapshot = oldState

\* C14: once roomId has a value, every step keeps that value, except the
\* local user's own leftRoom or kicked event, which resets the state.
C14_RoomIdStability ==
    [][ Truthy(state.roomId) =>
          \/ state'.roomId = state.roomId
          \/ OwnLeave' /\ ~threw' ]_vars

\* C14's case: in a room, the local user's own join arrives (for a join
\* command sent while in the room) and the roomId is the one it was.
C14_Witness ==
    /\ OwnJoin
    /\ Truthy(oldState.roomId)
    /\ state.roomId = oldState.roomId
    /\ state.userId # oldState.userId
    /\ ~threw

ResetEvent ==
    /\ "event" \in DOMAIN action
    /\ oldState.roomId = action.event.roomId
    /\ \/ Received("leftRoom") /\ action.event.userId = oldState.userId
       \/ Received("kicked") /\ Get(action.event.payload, "userId") = oldState.userId
    /\ ~threw

\* C16 as stated: after every event the actionLog is the previous actionLog,
\* or the previous actionLog with one new entry at its head.
C16_ActionLogGrowth_AsStated ==
    "event" \in DOMAIN action => (state.actionLog = oldState.actionLog \/ OneEntryAdded)

\* C16, amended: after every step the actionLog is the previous actionLog, or
\* the previous actionLog with one new entry at its head, except after the
\* local user's own leftRoom or kicked event, whose reset drops the previous
\* entries: the log then holds the entry about that event and nothing else.
C16_ActionLogGrowth ==
    IF ResetEvent
    THEN Len(state.actionLog) = 1 /\ state.actionLog[1].logId = now
    ELSE state.actionLog = oldState.actionLog \/ OneEntryAdded

\* C16's case: an entry is added to a log that holds three entries, the
\* first of them written after an earlier reset.
C16_Witness ==
    /\ "event" \in DOMAIN action
    /\ Len(oldState.actionLog) = 3
    /\ OneEntryAdded
    /\ state.actionLog[4].logId > 1

\* The last event reached its handler: it was no failed join with a username
\* validation or "Not Authorized" reason, it passed the room comparison and
\* its type has a handler.
Handled ==
    /\ "event" \in DOMAIN action
    /\ ~isUsernameValidationError(action.event)
    /\ ~isNotAuthorized(action.event)
    /\ snapshot.roomId = action.event.roomId
    /\ action.type \in HandlerTypes

\* The state the handler's fn returned for the last event.
FnOutput == handlerFn(action.type, snapshot, action.event.payload, action.event, oldSettings)

\* C17: for every handled event the state the reducer returns equals the
\* output of the handler's fn in every field other than actionLog, and its
\* actionLog is that output's, as it is or with one entry before it, whether
\* the handler has no log, or a log function that returns a message or
\* nothing.
C17_LogIndependence ==
    (Handled /\ ~threw) =>
        /\ SameExcept(state, FnOutput, {"actionLog"})
        /\ \/ state.actionLog = FnOutput.actionLog
           \/ state.actionLog # Empty /\ Tail(state.actionLog) = FnOutput.actionLog

\* C17's case: a usernameSet event that repeats the name a user of the room
\* has: the log function runs and returns nothing.
C17_Witness ==
    /\ Received("usernameSet")
    /\ Handled
    /\ ~threw
    /\ action.event.userId \in DOMAIN oldState.users
    /\ Get(oldState.users[action.event.userId], "username") = action.event.payload.username
    /\ state.actionLog = oldState.actionLog
    /\ oldState.actionLog # Empty

\* C18: a storyAdded event of the local room with payload {storyId, title,
\* description, createdAt} yields the previous stories with the entry
\* storyId -> {id, title, description, createdAt} put in, every other entry
\* as it was, one new log entry that names the story's title, and no other
\* change.
C18_StoryAdded ==
    (Received("storyAdded") /\ oldState.roomId = action.event.roomId) =>
        LET payload == action.event.payload
            added == [id |-> payload.storyId, title |-> payload.title,
                      description |-> payload.description, createdAt |-> payload.createdAt]
            username == IF action.event.userId \in DOMAIN state.users
                        THEN OrElse(Get(state.users[action.event.userId], "username"), "")
                        ELSE ""
        IN /\ ~threw
           /\ DOMAIN state.stories = DOMAIN oldState.stories \cup {payload.storyId}
           /\ state.stories[payload.storyId] = added
           /\ \A t \in (DOMAIN oldState.stories) \ {payload.storyId} :
                state.stories[t] = oldState.stories[t]
           /\ OneEntryAdded
           /\ state.actionLog[1].message =
                username \o " added new story \"" \o payload.title \o "\""
           /\ SameExcept(state, oldState, {"stories", "actionLog"})

\* C18's case: a third story is added to a room that holds two.
C18_Witness ==
    /\ Received("storyAdded")
    /\ oldState.roomId = action.event.roomId
    /\ DOMAIN oldState.stories = {"s1", "s2"}
    /\ DOMAIN state.stories = {"s1", "s2", "s3"}
    /\ state.stories["s3"].title = "Feature X"
    /\ state.actionLog[1].message = "A added new story \"Feature X\""

\* The users mapping with the disconnected flag of the given user set.
Disconnected(users, userId) == Put(users, userId, Put(users[userId], "disconnected", TRUE))

\* C19 as stated: a connectionLost event for a user in users sets that
\* user's disconnected flag and changes nothing else; for a user not in
\* users it leaves the state as it was.
C19_ConnectionLost_AsStated ==
    (Received("connectionLost") /\ ~threw) =>
        IF action.event.userId \in DOMAIN oldState.users
        THEN /\ state.users = Disconnected(oldState.users, action.event.userId)
             /\ SameExcept(state, oldState, {"users"})
        ELSE state = oldState

\* C19, amended: a connectionLost event of the local room puts one entry,
\* "<username> lost the connection" ("New user" for a user without a name or
\* not in users), at the head of actionLog; for a user in users it also sets
\* that user's disconnected flag, every other user as it was; no other field
\* changes.
C19_ConnectionLost ==
    (Received("connectionLost") /\ oldState.roomId = action.event.roomId) =>
        LET userId == action.event.userId
            known == userId \in DOMAIN oldState.users
        IN /\ ~threw
           /\ state.users = IF known THEN Disconnected(oldState.users, userId)
                            ELSE oldState.users
           /\ OneEntryAdded
           /\ state.actionLog[1].message =
                (IF known THEN OrElse(Get(oldState.users[userId], "username"), "New user")
                 ELSE "New user") \o " lost the connection"
           /\ SameExcept(state, oldState, {"users", "actionLog"})

\* C19's case: the connection of one of two users of the room is lost.
C19_Witness ==
    /\ Received("connectionLost")
    /\ oldState.roomId = action.event.roomId
    /\ action.event.userId = "u2"
    /\ DOMAIN oldState.users = {"u1", "u2"}
    /\ "disconnected" \notin DOMAIN oldState.users["u2"]
    /\ state.users["u2"].disconnected = TRUE
    /\ state.users["u1"] = oldState.users["u1"]

\* The action for the estimate of a user for a story of the local room.
EstimateGiven(userId, storyId, value) ==
    EventAction(Event("storyEstimateGiven", state.roomId, userId, Undef,
                      [storyId |-> storyId, value |-> value]))

\* The state the reducer returns for the action in the given state.
Reduced(s, act) == eventReducer(s, act, settings, now + 1).state

\* C20: a storyEstimateGiven event of the local room from user u for story s
\* sets estimations[s][u] to the event's value and changes nothing else: the
\* estimates of other users for s, the estimates for other stories and every
\* other field are as they were; and from every state the estimates of two
\* different users for the same story lead to the same state in either
\* order.
C20_EstimateIndependence ==
    /\ (Received("storyEstimateGiven") /\ oldState.roomId = action.event.roomId) =>
         LET u == action.event.userId
             s == action.event.payload.storyId
         IN /\ ~threw
            /\ DOMAIN state.estimations = DOMAIN oldState.estimations \cup {s}
            /\ DOMAIN state.estimations[s] =
                 (IF s \in DOMAIN oldState.estimations
                  THEN DOMAIN oldState.estimations[s] ELSE {}) \cup {u}
            /\ state.estimations[s][u] = action.event.payload.value
            /\ \A t \in DOMAIN oldState.estimations : \A w \in DOMAIN oldState.estimations[t] :
                 (t # s \/ w # u) => state.estimations[t][w] = oldState.estimations[t][w]
            /\ \A t \in (DOMAIN oldState.estimations) \ {s} :
                 state.estimations[t] = oldState.estimations[t]
            /\ SameExcept(state, oldState, {"estimations"})
    /\ \A s \in Stories : \A ua, ub \in Users :
         ua # ub =>
           Reduced(Reduced(state, EstimateGiven(ua, s, 3)), EstimateGiven(ub, s, 5))
             = Reduced(Reduced(state, EstimateGiven(ub, s, 5)), EstimateGiven(ua, s, 3))

\* C20's case: a second user estimates a story that holds the estimate of
\* the first, next to a story with estimates of its own.
C20_Witness ==
    /\ Received("storyEstimateGiven")
    /\ oldState.roomId = action.event.roomId
    /\ action.event.userId = "u2"
    /\ action.event.payload.storyId = "s2"
    /\ "s2" \in DOMAIN oldState.estimations
    /\ DOMAIN oldState.estimations["s2"] = {"u1"}
    /\ DOMAIN state.estimations["s2"] = {"u1", "u2"}
    /\ "s1" \in DOMAIN state.estimations

\* The preset a usernameSet, emailSet or avatarSet event is about, and the
\* value the event gives it.
PresetOf == [usernameSet |-> "presetUsername", emailSet |-> "presetEmail",
             avatarSet |-> "presetAvatar"]
PresetValue ==
    CASE action.event.name = "usernameSet" -> action.event.payload.username
      [] action.event.name = "emailSet" -> action.event.payload.email
      [] action.event.name = "avatarSet" -> action.event.payload.avatar

\* The last event was a usernameSet, emailSet or avatarSet of the local room.
IdentityEvent ==
    /\ "event" \in DOMAIN action
    /\ action.event.name \in DOMAIN PresetOf
    /\ oldState.roomId = action.event.roomId

\* C21: a usernameSet, emailSet or avatarSet event of the local room, about a
\* user of the room, updates that user's entry in users; when the user is the
\* local user it writes the event's value to the matching preset of the
\* state and of the settings store and to no other preset, and when it is
\* another user it writes neither.  Over every step the settings store
\* changes only by such an event about the local user, by the local user's
\* own join and by a join rejected for its username.
C21_OwnIdentityStoreWrites ==
    /\ (IdentityEvent /\ action.event.userId \in DOMAIN oldState.users) =>
         LET preset == PresetOf[action.event.name]
             userId == action.event.userId
             field == CASE preset = "presetUsername" -> "username"
                        [] preset = "presetEmail" -> "email"
                        [] preset = "presetAvatar" -> "avatar"
         IN /\ ~threw
            /\ userId \in DOMAIN state.users
            /\ state.users[userId][field] = PresetValue
            /\ IF userId = oldState.userId
               THEN /\ state[preset] = PresetValue
                    /\ settings[preset] = PresetValue
                    /\ SameExcept(settings, oldSettings, {preset})
               ELSE /\ settings = oldSettings
                    /\ state[preset] = oldState[preset]
            /\ SameExcept(state, oldState, {"users", "actionLog", preset})
    /\ settings # oldSettings =>
         \/ IdentityEvent /\ action.event.userId = oldState.userId
         \/ OwnJoin /\ InScope
         \/ FailedJoin("InvalidUsername")

\* C21's case: in a room of two, the other user sets an email address while
\* the local user has none preset.
C21_Witness ==
    /\ Received("emailSet")
    /\ oldState.roomId = action.event.roomId
    /\ oldState.userId = "u1"
    /\ action.event.userId = "u2"
    /\ DOMAIN oldState.users = {"u1", "u2"}
    /\ state.users["u2"].email = "a@b.c"
    /\ settings.presetEmail = Undef
    /\ state.presetEmail = Undef

\* C22 as stated: for every joinedRoom event the reducer applies, the log
\* entry reads 'You joined room "<roomId>"' exactly when the transition
\* treated the event as the local user's own join, the event answering the
\* pending join command.
C22_JoinIdentityAgreement_AsStated ==
    (Received("joinedRoom") /\ InScope /\ ~threw) =>
        /\ OneEntryAdded
        /\ (state.actionLog[1].message = "You joined room \"" \o state.roomId \o "\"")
             <=> OwnJoin

\* The last event was one of the given names, of the local room, and the
\* reducer returned a state for it.
Applied(names) ==
    /\ "event" \in DOMAIN action
    /\ action.event.name \in names
    /\ oldState.roomId = action.event.roomId
    /\ ~threw

\* C23: applause turns true by a consensusAchieved event alone, which also
\* sets the consensus of its story to the event's value; every storySelected
\* and newEstimationRoundStarted event leaves applause false; and applause
\* turns false by one of these two or by the reset of the local user's own
\* leftRoom or kicked event, and by nothing else.
C23_ApplauseLifecycle ==
    [][ /\ (~state.applause /\ state'.applause) => Applied({"consensusAchieved"})'
        /\ Applied({"consensusAchieved"})' =>
             /\ state'.applause
             /\ state'.stories[action'.event.payload.storyId].consensus
                  = action'.event.payload.value
        /\ Applied({"storySelected", "newEstimationRoundStarted"})' => ~state'.applause
        /\ (state.applause /\ ~state'.applause) =>
             \/ Applied({"storySelected", "newEstimationRoundStarted"})'
             \/ ResetEvent' ]_vars

\* C23's case: the applause for a consensus ends with the selection of
\* another story, the consensus of the first story staying.
C23_Witness ==
    /\ Applied({"storySelected"})
    /\ oldState.applause
    /\ ~state.applause
    /\ action.event.payload.storyId = "s2"
    /\ "s1" \in DOMAIN state.stories
    /\ "consensus" \in DOMAIN state.stories["s1"]
    /\ state.stories["s1"].consensus = 3

\* The fields a join of another user leaves alone, roomId aside.
JoinFrame == {"userId", "stories", "estimations", "selectedStory", "cardConfig"}

\* C24 as stated: once the local user's own join was applied, and until a
\* new join command is sent, pendingJoinCommandId is absent and no
\* joinedRoom event changes userId, roomId, stories, estimations,
\* selectedStory or cardConfig.
C24_JoinOneShot_AsStated ==
    [][ /\ resolved' => ~Truthy(state'.pendingJoinCommandId)
        /\ (resolved /\ Received("joinedRoom")') =>
             \A f \in JoinFrame \cup {"roomId"} : state'[f] = state[f] ]_vars

\* C24, amended: once the local user's own join was applied, and until a
\* new join command is sent, pendingJoinCommandId is absent and no
\* joinedRoom event, a second delivery of the own join included, changes
\* userId, stories, estimations, selectedStory or cardConfig, nor a roomId
\* that is set; a joinedRoom that arrives after the local user's own leave or
\* kick has reset the state finds no roomId and sets it to the event's.
C24_JoinOneShot ==
    [][ /\ resolved' => ~Truthy(state'.pendingJoinCommandId)
        /\ (resolved /\ Received("joinedRoom")') =>
             /\ \A f \in JoinFrame : state'[f] = state[f]
             /\ IF Truthy(state.roomId)
                THEN state'.roomId = state.roomId
                ELSE state'.roomId = action'.event.roomId ]_vars

\* C24's case: the own join is delivered a second time, after a story of
\* the room has changed: the stories stay as they are.
C24_Witness ==
    /\ resolved
    /\ Received("joinedRoom")
    /\ action.event.correlationId = "c1"
    /\ action.event.userId = oldState.userId
    /\ oldState.roomId = action.event.roomId
    /\ ~threw
    /\ state.stories = oldState.stories
    /\ state.stories # indexStories(action.event.payload.stories)

\* C25 as stated: an event of the local room for which the reducer returned
\* a state can be applied a second time, to that state, and the reducer
\* returns a state again: it raises no error.
C25_NoFailureOnRedelivery_AsStated ==
    ( /\ "event" \in DOMAIN action
      /\ oldState.roomId = action.event.roomId
      /\ ~threw )
    => ~eventReducer(state, action, settings, now + 1).threw

\* C26 as stated: after events that refer to stories the state holds,
\* selectedStory and highlightedStory are each absent or the id of a story in
\* stories.
C26_StoryReferenceIntegrity_AsStated ==
    \A f \in {"selectedStory", "highlightedStory"} :
        ~Truthy(state[f]) \/ state[f] \in DOMAIN state.stories

====
